---- MODULE Spec2Model ----
(***************************************************************************)
(* Batch lifecycle of the farm -> transporter -> vendor tracking           *)
(* application: the six tables with their row-level policies, the four     *)
(* edge functions (calculate-route, create-batch, fetch-environmental-data,*)
(* analyze-batch) and the operations of the client data hook useBatches    *)
(* with the forms that drive them.                                         *)
(*                                                                         *)
(* Every operation is one action.  The database applies the row-level      *)
(* policies of the migrations with PostgreSQL's semantics: an INSERT whose *)
(* WITH CHECK fails raises an error, an UPDATE silently skips the rows its *)
(* USING expression rejects, and INSERT .. ON CONFLICT DO UPDATE raises an *)
(* error when the conflicting row fails the UPDATE policy.                 *)
(***************************************************************************)
EXTENDS Integers, Sequences, FiniteSets, TLC

\* ---------------------------------------------------------------- bounds
MaxBatches == 1
MaxLogs == 2
MaxReceipts == 2
MaxEnv == 2

\* ----------------------------------------------------------------- users
\* auth.users after signup; handle_new_user gives each one role.
Farmers == {"f1"}
Transporters == {"t1", "t2"}
Vendors == {"v1"}
Users == Farmers \cup Transporters \cup Vendors

\* A request without a Bearer header, or with a token that resolves to no claims.
NoBearer == "no-bearer"
BadToken == "bad-token"
Callers == Users \cup {NoBearer, BadToken}

\* The rows handle_new_user inserted into user_roles and the role it wrote
\* into each profiles row.
SignupRoles ==
  {<<u, "farmer">> : u \in Farmers} \cup
  {<<u, "transporter">> : u \in Transporters} \cup
  {<<u, "vendor">> : u \in Vendors}

\* user and profile of AuthContext when they are null.
NoUser == "null"

\* AuthContext after a sign-out that has settled: the SDK holds no session,
\* user and profile are null.
SignedOutAuth ==
  [mounted |-> TRUE, sdk |-> [uid |-> NoUser, state |-> "none"],
   user |-> NoUser, profile |-> NoUser, pending |-> {}]

\* The browser before AuthProvider is mounted.
UnmountedAuth == [SignedOutAuth EXCEPT !.mounted = FALSE]

\* AuthContext after a sign-in of u that has settled.
SignedInAuth(u) ==
  [mounted |-> TRUE, sdk |-> [uid |-> u, state |-> "valid"],
   user |-> u, profile |-> u, pending |-> {}]

\* TransporterDashboard when it has fetched nothing yet: batches is the state
\* of its useBatches, inflight the fetchBatches calls that have read and not
\* yet called setBatches, started their count, latest what the most recently
\* started one read, selected the selectedBatch of the detail sheet, and
\* accepted whether Accept succeeded on the sheet since it was opened.
NoSelection == [id |-> 0]

EmptyDash ==
  [batches |-> << >>, inflight |-> {}, started |-> 0, latest |-> << >>,
   selected |-> NoSelection, accepted |-> FALSE]

\* --------------------------------------------------------- batch_status
StatusOrder ==
  <<"created", "assigned_transporter", "picked_up", "in_transit",
    "delivered", "received", "analyzed">>

Rank(s) == CHOOSE i \in 1..Len(StatusOrder) : StatusOrder[i] = s

BatchIds == 1..MaxBatches

VARIABLES
  batches,             \* id -> [farmer_id, status], for the rows that exist
  transport_logs,      \* sequence of [batch_id, transporter_id], in insertion order
  vendor_receipts,     \* sequence of [batch_id, vendor_id, quality_grade]
  environmental_data,  \* sequence of rows, in insertion order
  ai_analysis,         \* batch_id -> analysis payload (batch_id is UNIQUE)
  resp,                \* the last operation and what it answered
  route,               \* the last calculate-route request and its response
  user_roles,          \* set of <<user_id, role>> (UNIQUE (user_id, role))
  profiles,            \* id -> [role], the profiles row of each user
  view,                \* vendor -> the batches state of the vendor's useBatches
  auth,                \* the auth state of one browser: SDK session and AuthContext
  dash                 \* the transporter dashboard of one browser

\* The state of the browser that no server-side operation touches.
client == <<auth, dash>>

vars == <<batches, transport_logs, vendor_receipts, environmental_data, ai_analysis,
          resp, route, user_roles, profiles, view, auth, dash>>

\* ------------------------------------------------------------ database
\* The tables as one value, so that an operation is a function from the
\* database and its inputs to an answer and the database afterwards.
Db(bt, tl, vr, env, ai) ==
  [batches |-> bt, transport_logs |-> tl, vendor_receipts |-> vr,
   environmental_data |-> env, ai_analysis |-> ai]

Current == Db(batches, transport_logs, vendor_receipts, environmental_data, ai_analysis)

\* ------------------------------------------------- row-level policies
has_role(uid, role) == <<uid, role>> \in user_roles

is_batch_participant(db, b, uid) ==
  \/ b \in DOMAIN db.batches /\ db.batches[b].farmer_id = uid
  \/ \E i \in DOMAIN db.transport_logs :
       db.transport_logs[i].batch_id = b /\ db.transport_logs[i].transporter_id = uid
  \/ \E i \in DOMAIN db.vendor_receipts :
       db.vendor_receipts[i].batch_id = b /\ db.vendor_receipts[i].vendor_id = uid

\* "Farmers can create batches" as the migration of 16:05 wrote it (ownership
\* only), and as the migration of 16:19 leaves it.
BatchesInsertCheckOwnershipOnly(uid, farmer_id) == uid = farmer_id

BatchesInsertCheck(uid, farmer_id) ==
  uid = farmer_id /\ has_role(uid, "farmer")

\* "Participants can view batches", "Transporters can view created batches",
\* "Vendors can view in-transit batches" (permissive policies are OR-ed).
BatchesSelectUsing(db, uid, b) ==
  \/ is_batch_participant(db, b, uid)
  \/ has_role(uid, "transporter") /\ db.batches[b].status = "created"
  \/ has_role(uid, "vendor") /\ db.batches[b].status \in {"in_transit", "delivered"}

\* "Farmers can update own batches"
BatchesUpdateUsing(db, uid, b) == db.batches[b].farmer_id = uid

\* "Transporters can create transport logs"
TransportLogsInsertCheck(uid, transporter_id) ==
  uid = transporter_id /\ has_role(uid, "transporter")

\* "Participants can view transport logs"
TransportLogsSelectUsing(db, uid, row) ==
  row.batch_id \in DOMAIN db.batches /\ is_batch_participant(db, row.batch_id, uid)

\* "Vendors can create receipts"
VendorReceiptsInsertCheck(uid, vendor_id) ==
  uid = vendor_id /\ has_role(uid, "vendor")

\* "Participants can view receipts"
VendorReceiptsSelectUsing(db, uid, row) ==
  row.batch_id \in DOMAIN db.batches /\ is_batch_participant(db, row.batch_id, uid)

\* "Vendors can update own receipts"
VendorReceiptsUpdateUsing(uid, row) == row.vendor_id = uid

\* "Participants can insert environmental data"
EnvironmentalDataInsertCheck(db, uid, b) == is_batch_participant(db, b, uid)

\* "Participants can insert AI analysis"
AiAnalysisInsertCheck(db, uid, b) == is_batch_participant(db, b, uid)

\* ai_analysis has no UPDATE policy: with row-level security enabled every
\* update of a row is denied.
AiAnalysisUpdateUsing(db, uid, b) == FALSE

\* ------------------------------------------------ profiles, user_roles
Roles == {"farmer", "transporter", "vendor"}

SignupProfiles ==
  [u \in Users |-> [role |-> CHOOSE r \in Roles : <<u, r>> \in SignupRoles]]

\* "Users can insert own role"
UserRolesInsertCheck(uid, user_id) == uid = user_id

\* "Users can update own profile"
ProfilesUpdateUsing(uid, id) == uid = id

\* An insert into user_roles through the API: 0, or -1 when the policy or
\* UNIQUE (user_id, role) refuses it.  rows is the table; the answer carries
\* the table afterwards.
InsertUserRole(rows, uid, user_id, role) ==
  IF uid \in Users /\ UserRolesInsertCheck(uid, user_id) /\ <<user_id, role>> \notin rows
  THEN [status |-> 0, rows |-> rows \cup {<<user_id, role>>}]
  ELSE [status |-> -1, rows |-> rows]

\* UPDATE profiles SET role = .. WHERE id = .., through the API: the policy
\* filters the rows, and no column is protected.
UpdateProfileRole(rows, uid, id, role) ==
  IF uid \in Users /\ ProfilesUpdateUsing(uid, id)
  THEN [rows EXCEPT ![id].role = role]
  ELSE rows

\* ------------------------------------------------------------ responses
\* What the last operation answered: an edge function's HTTP status, and for
\* an operation of the client hook 0 when it returned and -1 when it threw;
\* ext is what the external service of the request did ("" when the
\* operation is not a request to one of the two gateway handlers).
Resp(op, status, ext) == [op |-> op, status |-> status, ext |-> ext]

Init ==
  /\ batches = << >>
  /\ transport_logs = << >>
  /\ vendor_receipts = << >>
  /\ environmental_data = << >>
  /\ ai_analysis = << >>
  /\ resp = Resp("init", 0, "")
  /\ route = [asked |-> FALSE]
  /\ user_roles = SignupRoles
  /\ profiles = SignupProfiles
  /\ view = [v \in Vendors |-> << >>]
  /\ auth = UnmountedAuth
  /\ dash = EmptyDash

\* ------------------------------------------------------- request inputs
\* A JSON field that is absent (undefined / null) in a request or a response.
Missing == -1

\* JavaScript truthiness of an optional number: absent and 0 are falsy.
Truthy(x) == x # Missing /\ x # 0

\* batch_id of a request body is a batch id, or 0 for an absent or empty one;
\* stage is a stage, or "" for an absent or empty one.
Stages == {"harvest", "transport_pickup", "transport_delivery", "receipt"}

\* ------------------------------------------------------ JSON documents
\* The texts an LLM answer can carry, by what JSON.parse makes of them.
Undefined == "undefined"
TextEmpty == ""
TextGarbage == "not json"
TextNull == "null"
TextPartial == "{summary}"
TextA == "{analysis A}"
TextB == "{analysis B}"
TextEnv == "{env}"
TextEnvPartial == "{temperature}"

\* JavaScript truthiness of an optional string.
TruthyText(t) == t # Undefined /\ t # TextEmpty

Null == "NULL"

AnalysisObject(tag, conf) ==
  [degradation_point |-> "degradation " \o tag,
   environmental_impact |-> "impact " \o tag,
   confidence_level |-> conf,
   farmer_suggestions |-> "farmer " \o tag,
   transporter_suggestions |-> "transporter " \o tag,
   vendor_suggestions |-> "vendor " \o tag,
   summary |-> "summary " \o tag]

\* An object that carries a summary only: every other field reads undefined
\* and is stored as NULL.
PartialAnalysisObject ==
  [degradation_point |-> Null, environmental_impact |-> Null,
   confidence_level |-> Null, farmer_suggestions |-> Null,
   transporter_suggestions |-> Null, vendor_suggestions |-> Null,
   summary |-> "summary only"]

EnvObject(t, h, c, a, u, p, w) ==
  [temperature_celsius |-> t, humidity_percentage |-> h, weather_condition |-> c,
   air_quality_index |-> a, uv_index |-> u, precipitation_mm |-> p,
   wind_speed_kmh |-> w]

\* JSON.parse: [ok |-> FALSE] when it throws a SyntaxError, else the value;
\* isNull tells the JSON value null from an object.
ParseFails == [ok |-> FALSE, isNull |-> FALSE, value |-> Null]
ParsedNull == [ok |-> TRUE, isNull |-> TRUE, value |-> Null]
Parsed(v) == [ok |-> TRUE, isNull |-> FALSE, value |-> v]

ParseAnalysisJSON(text) ==
  CASE text = TextA -> Parsed(AnalysisObject("A", "High"))
    [] text = TextB -> Parsed(AnalysisObject("B", "Medium"))
    [] text = TextPartial -> Parsed(PartialAnalysisObject)
    [] text = TextNull -> ParsedNull
    [] OTHER -> ParseFails

ParseEnvJSON(text) ==
  CASE text = TextEnv -> Parsed(EnvObject(31, 70, "Sunny", 42, 7, 2, 15))
    [] text = TextEnvPartial ->
         Parsed(EnvObject(31, Missing, Null, Missing, Missing, Missing, Missing))
    [] text = TextNull -> ParsedNull
    [] OTHER -> ParseFails

\* -------------------------------------------- answers of the LLM gateway
\* kind: "nokey" (LOVABLE_API_KEY is not configured), "throw" (fetch threw),
\* "status" (a non-OK answer), "badbody" (an OK answer whose body is not
\* JSON), "ok" (an OK answer; args is choices[0].message.tool_calls[0]
\* .function.arguments and content is choices[0].message.content).
Gw(kind, status, args, content) ==
  [kind |-> kind, status |-> status, args |-> args, content |-> content]

GatewayFailures ==
  {Gw("nokey", 0, Undefined, Undefined), Gw("throw", 0, Undefined, Undefined),
   Gw("badbody", 200, Undefined, Undefined)} \cup
  {Gw("status", s, Undefined, Undefined) : s \in {429, 402, 503}}

AnalysisGateway ==
  GatewayFailures \cup
  {Gw("ok", 200, a, Undefined) : a \in {TextA, TextB, TextPartial, TextNull, TextGarbage}} \cup
  {Gw("ok", 200, a, c) : a \in {Undefined, TextEmpty},
                         c \in {Undefined, TextGarbage, TextNull, TextPartial, TextA}}

EnvGateway ==
  GatewayFailures \cup
  {Gw("ok", 200, a, Undefined) :
     a \in {TextEnv, TextEnvPartial, TextNull, TextGarbage, TextEmpty, Undefined}}

\* ------------------------------------------------ table primitives
\* What an operation answers: its status and the database it leaves.
Answer(status, db) == [status |-> status, db |-> db]

\* UPDATE batches SET status = s WHERE id = b, as user uid: the row-level
\* policy filters the rows, and updating no row is not an error.
UpdateBatchStatus(db, uid, b, s) ==
  IF b \in DOMAIN db.batches /\ uid \in Users /\ BatchesUpdateUsing(db, uid, b)
  THEN [db EXCEPT !.batches = [db.batches EXCEPT ![b].status = s]]
  ELSE db

EnvRow(b, stage, v) ==
  [batch_id |-> b, stage |-> stage,
   temperature_celsius |-> v.temperature_celsius,
   humidity_percentage |-> v.humidity_percentage,
   weather_condition |-> v.weather_condition,
   air_quality_index |-> v.air_quality_index,
   uv_index |-> v.uv_index,
   precipitation_mm |-> v.precipitation_mm,
   wind_speed_kmh |-> v.wind_speed_kmh]

InsertEnvRow(db, row) ==
  [db EXCEPT !.environmental_data = Append(db.environmental_data, row)]

\* --------------------------------------------- fetch-environmental-data
\* The placeholder values used when the answer carries no tool call.
FallbackTemperature == 25
FallbackHumidity == 60
FallbackAqi == 50
FallbackUv == 5
FallbackPrecipitation == 0
FallbackWind == 10

EnvFallback ==
  EnvObject(FallbackTemperature, FallbackHumidity, "Unknown", FallbackAqi,
            FallbackUv, FallbackPrecipitation, FallbackWind)

\* What a non-OK answer of the gateway becomes.  Two other mappings, one that
\* collapses every status and one that relays every status, are kept for
\* comparison with the one of the code.
GatewayErrorStatusAlways500(status) == 500

GatewayErrorStatusRelayed(status) == status

GatewayErrorStatus(status) ==
  IF status = 429 THEN 429 ELSE IF status = 402 THEN 402 ELSE 500

\* Input validation of fetch-environmental-data: !batch_id || !stage ||
\* !latitude || !longitude.
EnvInputMissing(b, stage, lat, lng) ==
  b = 0 \/ stage = "" \/ ~Truthy(lat) \/ ~Truthy(lng)

\* envData of lines 144-158: the parsed arguments of the tool call, or the
\* placeholder values when the answer carries none.  EnvDataOfNoFallback is
\* the same without the placeholder values, kept for comparison.
EnvDataOfNoFallback(gw) == ParseEnvJSON(gw.args)

EnvDataOf(gw) ==
  IF TruthyText(gw.args) THEN ParseEnvJSON(gw.args) ELSE Parsed(EnvFallback)

\* The handler as a function of the request, the gateway's answer and the
\* database: the HTTP status and the database afterwards.
FetchEnvironmentalData(db, caller, b, stage, lat, lng, gw) ==
  LET p == EnvDataOf(gw)
  IN
  IF caller \notin Users THEN Answer(401, db)
  ELSE IF EnvInputMissing(b, stage, lat, lng) THEN Answer(400, db)
  ELSE IF gw.kind \in {"nokey", "throw", "badbody"} THEN Answer(500, db)
  ELSE IF gw.kind = "status" THEN Answer(GatewayErrorStatus(gw.status), db)
  ELSE IF ~p.ok \/ p.isNull THEN Answer(500, db)
  ELSE IF b \in DOMAIN db.batches /\ EnvironmentalDataInsertCheck(db, caller, b)
       THEN Answer(200, InsertEnvRow(db, EnvRow(b, stage, p.value)))
       ELSE Answer(500, db)

\* ------------------------------------------------------- analyze-batch
GenericSuggestion == "Please ensure all data is submitted for accurate analysis."

AnalysisFallback(content) ==
  [degradation_point |-> "Unable to determine",
   environmental_impact |-> "Analysis incomplete",
   confidence_level |-> "Low",
   farmer_suggestions |-> GenericSuggestion,
   transporter_suggestions |-> GenericSuggestion,
   vendor_suggestions |-> GenericSuggestion,
   summary |-> IF TruthyText(content) THEN content
               ELSE "Analysis could not be completed."]

\* Lines 214-236: the tool call's arguments are parsed outside any try; the
\* content is parsed inside one, whose catch yields the fallback payload.
ExtractAnalysis(gw) ==
  IF TruthyText(gw.args) THEN ParseAnalysisJSON(gw.args)
  ELSE LET p == ParseAnalysisJSON(gw.content)
       IN IF p.ok THEN p ELSE Parsed(AnalysisFallback(gw.content))

\* upsert(.., {onConflict: "batch_id"}): INSERT .. ON CONFLICT (batch_id) DO
\* UPDATE under the policies of ai_analysis.  TRUE when the statement errors.
AiAnalysisUpsertFails(db, caller, b) ==
  \/ ~AiAnalysisInsertCheck(db, caller, b)
  \/ b \in DOMAIN db.ai_analysis /\ ~AiAnalysisUpdateUsing(db, caller, b)

UpsertAiAnalysis(db, b, payload) ==
  [db EXCEPT !.ai_analysis =
     [x \in DOMAIN db.ai_analysis \cup {b} |->
        IF x = b THEN payload ELSE db.ai_analysis[x]]]

\* The handler's answer carries, besides status and database, the analysis
\* of the response body (savedAnalysis || analysis).
AnalysisAnswer(status, db, body) == [status |-> status, db |-> db, body |-> body]

NoAnalysis == AnalysisObject("none", "none")

\* Lines 125-267: the gateway call, the reading of its answer, the upsert,
\* the status update and the success response, for a request that passed
\* the checks of lines 55-98.
AnalyzeBatchAfterLookup(db, caller, b, gw) ==
  LET p == ExtractAnalysis(gw)
  IN
  IF gw.kind \in {"nokey", "throw", "badbody"} THEN AnalysisAnswer(500, db, NoAnalysis)
  ELSE IF gw.kind = "status"
       THEN AnalysisAnswer(GatewayErrorStatus(gw.status), db, NoAnalysis)
  ELSE IF ~p.ok \/ p.isNull THEN AnalysisAnswer(500, db, NoAnalysis)
  ELSE
    LET saved == IF AiAnalysisUpsertFails(db, caller, b) THEN db
                 ELSE UpsertAiAnalysis(db, b, p.value)
    IN AnalysisAnswer(200, UpdateBatchStatus(saved, caller, b, "analyzed"), p.value)

\* A handler that writes the status before it calls the gateway, kept for
\* comparison.
AnalyzeBatchStatusFirst(db, caller, b, gw) ==
  IF caller \notin Users THEN AnalysisAnswer(401, db, NoAnalysis)
  ELSE IF b = 0 THEN AnalysisAnswer(400, db, NoAnalysis)
  ELSE IF b \notin DOMAIN db.batches \/ ~BatchesSelectUsing(db, caller, b)
       THEN AnalysisAnswer(404, db, NoAnalysis)
  ELSE AnalyzeBatchAfterLookup(UpdateBatchStatus(db, caller, b, "analyzed"), caller, b, gw)

AnalyzeBatch(db, caller, b, gw) ==
  IF caller \notin Users THEN AnalysisAnswer(401, db, NoAnalysis)
  ELSE IF b = 0 THEN AnalysisAnswer(400, db, NoAnalysis)
  ELSE IF b \notin DOMAIN db.batches \/ ~BatchesSelectUsing(db, caller, b)
       THEN AnalysisAnswer(404, db, NoAnalysis)
  ELSE AnalyzeBatchAfterLookup(db, caller, b, gw)

\* -------------------------------------------------------- create-batch
\* Answers of the weather API and of the air-quality API to fetchWeatherData.
\* kind: "nokey" (GOOGLE_API_KEY is not configured), "throw", "nonok", "ok";
\* an OK weather body gives each field or leaves it out; aqi is the index of
\* an OK air-quality answer, Missing when that call fails (non-OK or
\* throwing) or carries none; insertError tells whether the insert of the
\* harvest row into environmental_data comes back with an error.
Weather(kind, temp, hum, cond, uv, precip, windValue, windUnit, aqi, insertError) ==
  [kind |-> kind, temp |-> temp, hum |-> hum, cond |-> cond, uv |-> uv,
   precip |-> precip, windValue |-> windValue, windUnit |-> windUnit, aqi |-> aqi,
   insertError |-> insertError]

WeatherFailure(kind) ==
  Weather(kind, Missing, Missing, Null, Missing, Missing, Missing, Null, Missing, FALSE)

WeatherAnswers ==
  {WeatherFailure(k) : k \in {"nokey", "throw", "nonok"}} \cup
  {Weather("ok", Missing, Missing, Null, Missing, Missing, Missing, Null, Missing, FALSE),
   Weather("ok", 31, 70, "Sunny", 7, 2, 5, "METERS_PER_SECOND", 42, FALSE),
   Weather("ok", 31, 70, "Sunny", 7, 2, 5, "METERS_PER_SECOND", 42, TRUE)}

\* x ?? d
Coalesce(x, d) == IF x = Missing THEN d ELSE x

\* Lines 30-102: null (ok = FALSE) or the WeatherData of the answer.
FetchWeatherData(w) ==
  IF w.kind # "ok" THEN ParseFails
  ELSE Parsed(EnvObject(
         Coalesce(w.temp, 25),
         Coalesce(w.hum, 60),
         IF w.cond = Null THEN "Unknown" ELSE w.cond,
         IF Truthy(w.aqi) THEN w.aqi ELSE Missing,
         Coalesce(w.uv, 5),
         Coalesce(w.precip, 0),
         IF Truthy(w.windValue)
         THEN (IF w.windUnit = "KILOMETERS_PER_HOUR" THEN w.windValue
               ELSE (w.windValue * 36) \div 10)
         ELSE 10))

\* The id the database gives the next batch.
NextBatchId(db) == Cardinality(DOMAIN db.batches) + 1

InsertBatch(db, farmer_id) ==
  [db EXCEPT !.batches =
     [x \in DOMAIN db.batches \cup {NextBatchId(db)} |->
        IF x \in DOMAIN db.batches THEN db.batches[x]
        ELSE [farmer_id |-> farmer_id, status |-> "created"]]]

\* The role check of lines 141-160, on the rows of user_roles of the caller
\* (maybeSingle: no row is null, more than one row is an error).
CreateBatchRoleStatus(caller) ==
  LET roles == {r \in Roles : has_role(caller, r)}
  IN IF Cardinality(roles) > 1 THEN 500
     ELSE IF roles # {"farmer"} THEN 403
     ELSE 200

\* Lines 195-230: what the handler answers once the batch is inserted,
\* whatever the harvest capture did (captureOk: it did not fail).
\* HarvestCaptureStatusPropagated is the answer of a handler that reports the
\* capture's failure instead.
HarvestCaptureStatusPropagated(captureOk) == IF captureOk THEN 200 ELSE 500

HarvestCaptureStatus(captureOk) == 200

\* What the harvest capture of a request met: "" when the request has no
\* position, else the weather answer's kind or "insert-error".
CaptureOutcome(lat, lng, w) ==
  IF ~(Truthy(lat) /\ Truthy(lng)) THEN ""
  ELSE IF w.kind = "ok" /\ w.insertError THEN "insert-error"
  ELSE w.kind

\* The handler, which writes with the service key (no row-level policy).
\* fieldsOk: crop_type, harvest_time, expected_quality and quantity_kg are
\* all present and truthy.
CreateBatch(db, caller, fieldsOk, lat, lng, w) ==
  IF caller \notin Users THEN Answer(401, db)
  ELSE IF CreateBatchRoleStatus(caller) # 200 THEN Answer(CreateBatchRoleStatus(caller), db)
  ELSE IF ~fieldsOk THEN Answer(400, db)
  ELSE
    LET created == InsertBatch(db, caller)
        weatherData == FetchWeatherData(w)
        captured == Truthy(lat) /\ Truthy(lng) /\ weatherData.ok /\ ~w.insertError
    IN IF captured
       THEN Answer(HarvestCaptureStatus(TRUE),
                   InsertEnvRow(created,
                     EnvRow(NextBatchId(db), "harvest", weatherData.value)))
       ELSE Answer(HarvestCaptureStatus(~(Truthy(lat) /\ Truthy(lng))), created)

\* An insert into batches through the API, under "Farmers can create batches".
DirectInsertBatch(db, uid, farmer_id) ==
  IF uid \in Users /\ BatchesInsertCheck(uid, farmer_id)
  THEN Answer(0, InsertBatch(db, farmer_id))
  ELSE Answer(-1, db)

\* ------------------------------------------------- client hook useBatches
LogRow(b, uid) == [batch_id |-> b, transporter_id |-> uid]

ReceiptRow(b, uid) == [batch_id |-> b, vendor_id |-> uid, quality_grade |-> Null]

\* acceptBatchAsTransporter: 0 when it returns, -1 when it throws.
AcceptBatchAsTransporter(db, uid, b) ==
  IF uid \notin Users THEN Answer(-1, db)
  ELSE IF b \notin DOMAIN db.batches \/ ~TransportLogsInsertCheck(uid, uid)
       THEN Answer(-1, db)
  ELSE Answer(0, UpdateBatchStatus(
                   [db EXCEPT !.transport_logs = Append(db.transport_logs, LogRow(b, uid))],
                   uid, b, "assigned_transporter"))

\* acceptBatchAsVendor
AcceptBatchAsVendor(db, uid, b) ==
  IF uid \notin Users THEN Answer(-1, db)
  ELSE IF b \notin DOMAIN db.batches \/ ~VendorReceiptsInsertCheck(uid, uid)
       THEN Answer(-1, db)
  ELSE Answer(0, [db EXCEPT !.vendor_receipts =
                               Append(db.vendor_receipts, ReceiptRow(b, uid))])

\* updateVendorReceipt with the fields of the receipt form.
UpdateVendorReceipt(db, uid, b, grade) ==
  [db EXCEPT !.vendor_receipts =
     [i \in DOMAIN db.vendor_receipts |->
        LET row == db.vendor_receipts[i]
        IN IF row.batch_id = b /\ VendorReceiptsUpdateUsing(uid, row)
           THEN [row EXCEPT !.quality_grade = grade]
           ELSE row]]

\* fetchEnvironmentalData as the forms call it: only with truthy coordinates,
\* and inside a try whose catch logs the error.
FormFetchEnvironmentalData(db, uid, b, stage, lat, lng, gw) ==
  IF Truthy(lat) /\ Truthy(lng)
  THEN FetchEnvironmentalData(db, uid, b, stage, lat, lng, gw).db
  ELSE db

\* TransportUpdateForm.handleSubmit; action is "pickup" or "deliver".  Its
\* first call, updateTransportLog, writes the times, positions and notes of
\* the caller's own transport_logs rows of the batch: columns that are not
\* kept here.  It raises no error when the policy leaves it no row.
\* TransportStatusViaTransit is a form whose pickup branch would write
\* in_transit, kept for comparison.
TransportStatusViaTransit(action) ==
  IF action = "pickup" THEN "in_transit" ELSE "delivered"

\* The status each branch of the form passes to updateBatch.
TransportStatus(action) ==
  IF action = "pickup" THEN "picked_up" ELSE "delivered"

TransportSubmit(db, uid, b, action, lat, lng, gw) ==
  LET moved == UpdateBatchStatus(db, uid, b, TransportStatus(action))
  IN Answer(0, FormFetchEnvironmentalData(moved, uid, b,
                 IF action = "pickup" THEN "transport_pickup" ELSE "transport_delivery",
                 lat, lng, gw))

\* VendorReceiptForm.handleSubmit
VendorReceiptSubmit(db, uid, b, grade, lat, lng, gwEnv, gwAnalysis) ==
  LET noted == UpdateVendorReceipt(db, uid, b, grade)
      moved == UpdateBatchStatus(noted, uid, b, "received")
      env == FormFetchEnvironmentalData(moved, uid, b, "receipt", lat, lng, gwEnv)
  IN Answer(0, AnalyzeBatch(env, uid, b, gwAnalysis).db)

\* CreateBatchForm.onSubmit: createBatch, then fetchEnvironmentalData for the
\* harvest stage when the form has coordinates and a batch came back.
CreateBatchFormSubmit(db, uid, fieldsOk, lat, lng, w, gw) ==
  LET made == CreateBatch(db, uid, fieldsOk, lat, lng, w)
  IN IF made.status # 200 THEN Answer(-1, db)
     ELSE Answer(0, FormFetchEnvironmentalData(made.db, uid, NextBatchId(db),
                      "harvest", lat, lng, gw))

\* ------------------------------------- useBatches under a stale session
\* A session is stale when the SDK still holds it, and AuthContext its user,
\* while the backend no longer accepts its token.
SessionExpiredMessage == "Session expired. Please sign in again and retry."
NotAuthenticatedMessage == "Not authenticated"
CreateFailedMessage == "Failed to create batch"
RawError == "error of the backend"

\* What the backend does with a request that carries a stale token: it
\* rejects the request, or serves it as an unauthenticated one.
StaleOutcomes == {"rejected", "anonymous"}

\* The caller the backend resolves from the browser's token.
Bearer(a) == IF a.sdk.state = "valid" THEN a.sdk.uid ELSE BadToken

\* What an operation of the hook did: 0 when it returned and -1 when it
\* threw, the message of what it threw, the database afterwards, and
\* whether it signed the browser out locally.
HookAnswer(status, message, db, signedOut) ==
  [status |-> status, message |-> message, db |-> db, signedOut |-> signedOut]

\* ensureAuthenticatedUserId: getUser fails unless the token is accepted.
EnsureAuthenticatedUserIdFails(a) == a.sdk.state # "valid"

\* createBatch: ensureAuthenticatedUserId, then the create-batch function.
HookCreateBatch(a, db) ==
  IF EnsureAuthenticatedUserIdFails(a)
  THEN HookAnswer(-1, SessionExpiredMessage, db, TRUE)
  ELSE LET r == CreateBatch(db, Bearer(a), TRUE, Missing, Missing, WeatherFailure("throw"))
       IN IF r.status = 401 THEN HookAnswer(-1, SessionExpiredMessage, db, TRUE)
          ELSE IF r.status # 200 THEN HookAnswer(-1, CreateFailedMessage, db, FALSE)
          ELSE HookAnswer(0, "", r.db, FALSE)

\* An insert of the hook: the test of the context's session, the insert, and
\* the throw of the insert's error.
HookInsert(a, db, r) ==
  IF a.user = NoUser THEN HookAnswer(-1, NotAuthenticatedMessage, db, FALSE)
  ELSE IF r.status = -1 THEN HookAnswer(-1, RawError, db, FALSE)
  ELSE HookAnswer(0, "", r.db, FALSE)

\* An update of the hook: an error is thrown as it is, and an update that
\* the policies leave no row is no error.
HookUpdate(a, db, how, updated) ==
  IF a.sdk.state # "valid" /\ how = "rejected" THEN HookAnswer(-1, RawError, db, FALSE)
  ELSE HookAnswer(0, "", updated, FALSE)

\* The operations of useBatches, on batch b where they take one; updateBatch
\* with the status s, updateVendorReceipt with the grade.
HookCall(op, a, db, b, s, grade, how) ==
  CASE op = "createBatch" -> HookCreateBatch(a, db)
    [] op = "acceptBatchAsTransporter" ->
         HookInsert(a, db, AcceptBatchAsTransporter(db, Bearer(a), b))
    [] op = "acceptBatchAsVendor" ->
         HookInsert(a, db, AcceptBatchAsVendor(db, Bearer(a), b))
    [] op = "updateBatch" ->
         HookUpdate(a, db, how, UpdateBatchStatus(db, Bearer(a), b, s))
    [] op = "updateTransportLog" -> HookUpdate(a, db, how, db)
    [] op = "updateVendorReceipt" ->
         HookUpdate(a, db, how, UpdateVendorReceipt(db, Bearer(a), b, grade))

\* ------------------------------------------------ the steps of a handler
\* The steps a handler enters while it serves a request, in the order of its
\* statements: "authenticate" (the Bearer test and getClaims), "authorize"
\* (the role lookup of create-batch, the batch lookup of analyze-batch),
\* "validate" (the test of the required fields), "call" (the fetch of the
\* external API), "map" (reading the answer), "persist" (an insert, upsert or
\* update statement).
FetchEnvironmentalDataSteps(db, caller, b, stage, lat, lng, gw) ==
  LET p == EnvDataOf(gw)
  IN
  IF caller \notin Users THEN <<"authenticate">>
  ELSE IF EnvInputMissing(b, stage, lat, lng) THEN <<"authenticate", "validate">>
  ELSE IF gw.kind = "nokey" THEN <<"authenticate", "validate">>
  ELSE IF gw.kind = "throw" THEN <<"authenticate", "validate", "call">>
  ELSE IF gw.kind \in {"badbody", "status"} \/ ~p.ok \/ p.isNull
       THEN <<"authenticate", "validate", "call", "map">>
  ELSE <<"authenticate", "validate", "call", "map", "persist">>

AnalyzeBatchSteps(db, caller, b, gw) ==
  LET p == ExtractAnalysis(gw)
  IN
  IF caller \notin Users THEN <<"authenticate">>
  ELSE IF b = 0 THEN <<"authenticate", "validate">>
  ELSE IF b \notin DOMAIN db.batches \/ ~BatchesSelectUsing(db, caller, b)
       \/ gw.kind = "nokey"
       THEN <<"authenticate", "validate", "authorize">>
  ELSE IF gw.kind = "throw" THEN <<"authenticate", "validate", "authorize", "call">>
  ELSE IF gw.kind \in {"badbody", "status"} \/ ~p.ok \/ p.isNull
       THEN <<"authenticate", "validate", "authorize", "call", "map">>
  ELSE <<"authenticate", "validate", "authorize", "call", "map", "persist">>

CreateBatchSteps(db, caller, fieldsOk, lat, lng, w) ==
  IF caller \notin Users THEN <<"authenticate">>
  ELSE IF CreateBatchRoleStatus(caller) # 200 THEN <<"authenticate", "authorize">>
  ELSE IF ~fieldsOk THEN <<"authenticate", "authorize", "validate">>
  ELSE IF ~(Truthy(lat) /\ Truthy(lng))
       THEN <<"authenticate", "authorize", "validate", "persist">>
  ELSE IF w.kind = "nokey"
       THEN <<"authenticate", "authorize", "validate", "persist">>
  ELSE IF w.kind = "throw"
       THEN <<"authenticate", "authorize", "validate", "persist", "call">>
  ELSE IF ~FetchWeatherData(w).ok
       THEN <<"authenticate", "authorize", "validate", "persist", "call", "map">>
  ELSE <<"authenticate", "authorize", "validate", "persist", "call", "map", "persist">>

\* ----------------------------------------------------- calculate-route
Point(present, lat, lng) == [present |-> present, lat |-> lat, lng |-> lng]

\* origin / destination of a request body: absent, or an object.
PointInputs == {Point(FALSE, Missing, Missing), Point(TRUE, 0, 0), Point(TRUE, 12, 12)}

\* Answers of the routing API.  kind: "nokey" (GOOGLE_API_KEY is not
\* configured), "throw", "badbody" (the body is not JSON), "status" (a non-OK
\* answer with a JSON body), "ok"; routes is "absent", "empty" or "one", and
\* the first route gives distanceMeters and duration or leaves them out.
RouteApi(kind, status, routes, distanceMeters, duration) ==
  [kind |-> kind, status |-> status, routes |-> routes,
   distanceMeters |-> distanceMeters, duration |-> duration]

RouteApiAnswers ==
  {RouteApi(k, 0, "absent", Missing, Undefined) : k \in {"nokey", "throw", "badbody"}} \cup
  {RouteApi("status", st, "absent", Missing, Undefined) : st \in {400, 403, 429, 500}} \cup
  {RouteApi("ok", 200, r, Missing, Undefined) : r \in {"absent", "empty"}} \cup
  {RouteApi("ok", 200, "one", d, t) :
     d \in {Missing, 0, 1504, 123456}, t \in {Undefined, "0s", "90s", "3700s"}}

\* parseInt(duration.replace('s', ''))
DurationSeconds(text) ==
  CASE text = "0s" -> 0
    [] text = "90s" -> 90
    [] text = "3700s" -> 3700

\* parseFloat((distanceMeters / 1000).toFixed(2)), in hundredths of a
\* kilometre; an absent distanceMeters gives NaN, which JSON writes as null.
DistanceKmHundredths(distanceMeters) ==
  IF distanceMeters = Missing THEN Missing ELSE (distanceMeters + 5) \div 10

DurationText(seconds) ==
  LET hours == seconds \div 3600
      minutes == (seconds % 3600) \div 60
  IN IF hours > 0 THEN ToString(hours) \o "h " \o ToString(minutes) \o "min"
     ELSE ToString(minutes) \o " min"

RouteAnswer(status, error, distanceMeters, distanceKm, durationSeconds, durationText) ==
  [status |-> status, error |-> error, distanceMeters |-> distanceMeters,
   distanceKm |-> distanceKm, durationSeconds |-> durationSeconds,
   durationText |-> durationText]

RouteError(status, error) == RouteAnswer(status, error, Missing, Missing, Missing, "")

CalculateRoute(origin, destination, api) ==
  IF ~origin.present \/ ~destination.present
  THEN RouteError(400, "Origin and destination coordinates are required")
  ELSE IF api.kind = "nokey" THEN RouteError(500, "Google API key not configured")
  ELSE IF api.kind \in {"throw", "badbody"} THEN RouteError(500, "exception")
  ELSE IF api.kind = "status" THEN RouteError(api.status, "Failed to calculate route")
  ELSE IF api.routes \in {"absent", "empty"}
       THEN RouteError(404, "No route found between the specified locations")
  ELSE IF api.duration = Undefined THEN RouteError(500, "exception")
  ELSE RouteAnswer(200, "", api.distanceMeters,
                   DistanceKmHundredths(api.distanceMeters),
                   DurationSeconds(api.duration),
                   DurationText(DurationSeconds(api.duration)))

\* ---------------------------------------------------------------- requests
\* What the geolocation hook gives a form: no position, or one.
NoPosition == <<Missing, Missing>>

GpsInputs == {NoPosition, <<0, 12>>, <<12, 12>>}

Grades == {"A", "C"}

\* One gateway answer for each path of a handler, for the calls that a form
\* makes and whose answer it does not look at.
EnvGatewayPaths ==
  {Gw("status", 503, Undefined, Undefined), Gw("ok", 200, TextEnv, Undefined),
   Gw("ok", 200, Undefined, Undefined)}

AnalysisGatewayPaths ==
  {Gw("status", 503, Undefined, Undefined), Gw("ok", 200, TextA, Undefined),
   Gw("ok", 200, TextB, Undefined), Gw("ok", 200, Undefined, Undefined)}

AnyGw == Gw("throw", 0, Undefined, Undefined)

\* The requests of analyze-batch: <<caller, batch_id, gateway answer>>.  A
\* request that is refused before the gateway is called is listed once.
AnalyzeRequests ==
  {<<c, 1, AnyGw>> : c \in {NoBearer, BadToken}} \cup
  {<<c, 0, AnyGw>> : c \in Users} \cup
  {<<c, b, gw>> : c \in Users, b \in BatchIds, gw \in AnalysisGateway}

\* The requests of fetch-environmental-data:
\* <<caller, batch_id, stage, latitude, longitude, gateway answer>>.
EnvRequests ==
  {<<c, 1, "receipt", 12, 12, AnyGw>> : c \in {NoBearer, BadToken}} \cup
  {<<c, in[1], in[2], in[3], in[4], AnyGw>> :
     c \in Users,
     in \in {<<0, "receipt", 12, 12>>, <<1, "", 12, 12>>, <<1, "receipt", Missing, 12>>,
             <<1, "receipt", 0, 12>>, <<1, "receipt", 12, 0>>}} \cup
  {<<c, b, st, 12, 12, gw>> :
     c \in Users, b \in BatchIds, st \in {"receipt"}, gw \in EnvGateway}

\* The requests of create-batch:
\* <<caller, required fields given, latitude, longitude, weather answer>>.
CreateRequests ==
  {<<c, TRUE, Missing, Missing, WeatherFailure("throw")>> : c \in Callers \ Farmers} \cup
  {<<c, FALSE, Missing, Missing, WeatherFailure("throw")>> : c \in Farmers} \cup
  {<<c, TRUE, gps[1], gps[2], WeatherFailure("throw")>> :
     c \in Farmers, gps \in {NoPosition, <<0, 12>>}} \cup
  {<<c, TRUE, 12, 12, w>> : c \in Farmers, w \in WeatherAnswers}

\* The answers a form's environmental capture can meet at a position: the
\* call is made only when both coordinates are truthy.
FormEnvGateway(gps) ==
  IF Truthy(gps[1]) /\ Truthy(gps[2]) THEN EnvGatewayPaths ELSE {AnyGw}

\* The submissions of the creation form: <<user, latitude, longitude, weather
\* answer, gateway answer>>.  create-batch refuses every user but a farmer.
CreateFormRequests(positions) ==
  {<<c, Missing, Missing, WeatherFailure("throw"), AnyGw>> : c \in Users \ Farmers} \cup
  {<<c, gps[1], gps[2], WeatherFailure("throw"), AnyGw>> :
     c \in Farmers, gps \in {g \in positions : ~(Truthy(g[1]) /\ Truthy(g[2]))}} \cup
  {<<c, gps[1], gps[2], w, gw>> :
     c \in Farmers, gps \in {g \in positions : Truthy(g[1]) /\ Truthy(g[2])},
     w \in WeatherAnswers, gw \in EnvGatewayPaths}

\* The direct inserts into batches: <<caller, farmer_id>>.
DirectInsertRequests ==
  {<<c, "f1">> : c \in {NoBearer, BadToken}} \cup (Users \X Users)

WithinBounds(db) ==
  /\ Cardinality(DOMAIN db.batches) <= MaxBatches
  /\ Len(db.transport_logs) <= MaxLogs
  /\ Len(db.vendor_receipts) <= MaxReceipts
  /\ Len(db.environmental_data) <= MaxEnv

Store(db) ==
  /\ WithinBounds(db)
  /\ batches' = db.batches
  /\ transport_logs' = db.transport_logs
  /\ vendor_receipts' = db.vendor_receipts
  /\ environmental_data' = db.environmental_data
  /\ ai_analysis' = db.ai_analysis

\* ----------------------------------------------------------------- actions
\* positions: the positions the clients' geolocation can give in the
\* specification that uses the action.
CreateBatchRequest(positions) ==
  \E req \in CreateRequests :
    /\ <<req[3], req[4]>> \in positions
    /\ \E r \in {CreateBatch(Current, req[1], req[2], req[3], req[4], req[5])} :
          /\ Store(r.db)
          /\ resp' = Resp("create-batch", r.status,
                           IF r.status = 200 THEN CaptureOutcome(req[3], req[4], req[5])
                           ELSE "")
          /\ UNCHANGED <<route, user_roles, profiles, view, client>>

DirectInsertBatchRequest ==
  \E req \in DirectInsertRequests :
    \E r \in {DirectInsertBatch(Current, req[1], req[2])} :
       /\ Store(r.db)
       /\ resp' = Resp("insert-batch", r.status, "")
       /\ UNCHANGED <<route, user_roles, profiles, view, client>>

FetchEnvironmentalDataRequest ==
  \E req \in EnvRequests :
    \E r \in {FetchEnvironmentalData(Current, req[1], req[2], req[3], req[4], req[5], req[6])} :
       /\ Store(r.db)
       /\ resp' = Resp("fetch-environmental-data", r.status, req[6].kind)
       /\ UNCHANGED <<route, user_roles, profiles, view, client>>

AnalyzeBatchRequest ==
  \E req \in AnalyzeRequests :
    \E r \in {AnalyzeBatch(Current, req[1], req[2], req[3])} :
       /\ Store(r.db)
       /\ resp' = Resp("analyze-batch", r.status, req[3].kind)
       /\ UNCHANGED <<route, user_roles, profiles, view, client>>

AcceptBatchAsTransporterCall ==
  \E uid \in Users, b \in BatchIds :
    \E r \in {AcceptBatchAsTransporter(Current, uid, b)} :
       /\ Store(r.db)
       /\ resp' = Resp("acceptBatchAsTransporter", r.status, "")
       /\ UNCHANGED <<route, user_roles, profiles, view, client>>

AcceptBatchAsVendorCall ==
  \E uid \in Users, b \in BatchIds :
    \E r \in {AcceptBatchAsVendor(Current, uid, b)} :
       /\ Store(r.db)
       /\ resp' = Resp("acceptBatchAsVendor", r.status, "")
       /\ UNCHANGED <<route, user_roles, profiles, view, client>>

TransportSubmitCall(positions) ==
  \E uid \in Users, b \in BatchIds, action \in {"pickup", "deliver"},
     gps \in positions :
    \E gw \in FormEnvGateway(gps) :
       \E r \in {TransportSubmit(Current, uid, b, action, gps[1], gps[2], gw)} :
          /\ Store(r.db)
          /\ resp' = Resp(action, r.status, "")
          /\ UNCHANGED <<route, user_roles, profiles, view, client>>

VendorReceiptSubmitCall(positions) ==
  \E uid \in Users, b \in BatchIds, grade \in Grades, gps \in positions :
    \E gwEnv \in FormEnvGateway(gps), gwAnalysis \in AnalysisGatewayPaths :
       \E r \in {VendorReceiptSubmit(Current, uid, b, grade, gps[1], gps[2],
                                     gwEnv, gwAnalysis)} :
          /\ Store(r.db)
          /\ resp' = Resp("confirm-receipt", r.status, "")
          /\ UNCHANGED <<route, user_roles, profiles, view, client>>

CreateBatchFormSubmitCall(positions) ==
  \E req \in CreateFormRequests(positions) :
    \E r \in {CreateBatchFormSubmit(Current, req[1], TRUE, req[2], req[3], req[4], req[5])} :
       /\ Store(r.db)
       /\ resp' = Resp("create-batch-form", r.status, "")
       /\ UNCHANGED <<route, user_roles, profiles, view, client>>

\* The lifecycle, on clients whose geolocation gives no position: the forms
\* then skip the environmental capture and environmental_data stays empty.
Next ==
  \/ CreateBatchRequest({NoPosition})
  \/ DirectInsertBatchRequest
  \/ AnalyzeBatchRequest
  \/ AcceptBatchAsTransporterCall
  \/ AcceptBatchAsVendorCall
  \/ TransportSubmitCall({NoPosition})
  \/ VendorReceiptSubmitCall({NoPosition})
  \/ CreateBatchFormSubmitCall({NoPosition})

Spec == Init /\ [][Next]_vars

\* The environmental capture: every operation that writes environmental_data,
\* with the operations that make a user a participant of a batch.
NextEnv ==
  \/ CreateBatchRequest(GpsInputs)
  \/ FetchEnvironmentalDataRequest
  \/ CreateBatchFormSubmitCall(GpsInputs)
  \/ AcceptBatchAsTransporterCall
  \/ TransportSubmitCall(GpsInputs)

SpecEnv == Init /\ [][NextEnv]_vars

\* calculate-route keeps no state and reads none: its requests are checked
\* on their own, over an untouched database.
\* The handler never reads the Authorization header: the caller of a request
\* is recorded, and the answer does not depend on it.  called tells whether
\* the routing API was called.
CalculateRouteCallsApi(origin, destination, api) ==
  origin.present /\ destination.present /\ api.kind # "nokey"

CalculateRouteRequest ==
  \E caller \in {NoBearer, BadToken} \cup Farmers, origin \in PointInputs,
     destination \in PointInputs, api \in RouteApiAnswers :
    /\ route' = [asked |-> TRUE, caller |-> caller, origin |-> origin,
                 destination |-> destination, api |-> api,
                 called |-> CalculateRouteCallsApi(origin, destination, api),
                 answer |-> CalculateRoute(origin, destination, api)]
    /\ UNCHANGED <<batches, transport_logs, vendor_receipts, environmental_data,
                   ai_analysis, resp, user_roles, profiles, view, client>>

NextRoute == CalculateRouteRequest

SpecRoute == Init /\ [][NextRoute]_vars

\* What a signed-in user can do to the own role through the API, under the
\* policies of profiles and user_roles.
InsertUserRoleRequest(callers) ==
  \E uid \in callers, user_id \in Users, role \in Roles :
    \E r \in {InsertUserRole(user_roles, uid, user_id, role)} :
       /\ user_roles' = r.rows
       /\ resp' = Resp("insert-user-role", r.status, "")
       /\ UNCHANGED <<batches, transport_logs, vendor_receipts, environmental_data,
                      ai_analysis, route, profiles, view, client>>

UpdateProfileRoleRequest ==
  \E uid \in Callers, id \in Users, role \in Roles :
    /\ profiles' = UpdateProfileRole(profiles, uid, id, role)
    /\ resp' = Resp("update-profile", 0, "")
    /\ UNCHANGED <<batches, transport_logs, vendor_receipts, environmental_data,
                   ai_analysis, route, user_roles, view, client>>

NextRoles ==
  \/ InsertUserRoleRequest(Callers)
  \/ UpdateProfileRoleRequest

SpecRoles == Init /\ [][NextRoles]_vars

\* The detail sheet of a vendor: useBatches keeps the rows of the last
\* fetchBatches, and the sheet offers Accept on a batch of that copy.
\* fetchBatches: the batches the caller can select, each with its status and
\* whether a vendor_receipts row of it is visible to the caller.
FetchBatches(db, uid) ==
  [b \in {c \in DOMAIN db.batches : BatchesSelectUsing(db, uid, c)} |->
     [status |-> db.batches[b].status,
      transport_log |->
        \E i \in DOMAIN db.transport_logs :
          /\ db.transport_logs[i].batch_id = b
          /\ TransportLogsSelectUsing(db, uid, db.transport_logs[i]),
      vendor_receipt |->
        \E i \in DOMAIN db.vendor_receipts :
          /\ db.vendor_receipts[i].batch_id = b
          /\ VendorReceiptsSelectUsing(db, uid, db.vendor_receipts[i])]]

\* The condition under which BatchDetailSheet renders the Accept card.
AcceptCardShown(prof, batch) ==
  prof.role = "vendor" /\ batch.status = "delivered" /\ ~batch.vendor_receipt

FetchBatchesCall ==
  \E v \in Vendors :
    /\ view' = [view EXCEPT ![v] = FetchBatches(Current, v)]
    /\ resp' = Resp("fetchBatches", 0, "")
    /\ UNCHANGED <<batches, transport_logs, vendor_receipts, environmental_data,
                   ai_analysis, route, user_roles, profiles, client>>

\* handleAcceptAsVendor on a batch of the fetched copy: acceptBatchAsVendor,
\* which ends with fetchBatches when the insert raised no error.
HandleAcceptAsVendorCall ==
  \E v \in Vendors :
    \E b \in DOMAIN view[v] :
      /\ AcceptCardShown(profiles[v], view[v][b])
      /\ \E r \in {AcceptBatchAsVendor(Current, v, b)} :
            /\ Store(r.db)
            /\ resp' = Resp("handleAcceptAsVendor", r.status, "")
            /\ view' = IF r.status = 0
                       THEN [view EXCEPT ![v] = FetchBatches(r.db, v)]
                       ELSE view
            /\ UNCHANGED <<route, user_roles, profiles, client>>

NextSheet ==
  \/ DirectInsertBatchRequest
  \/ AcceptBatchAsTransporterCall
  \/ TransportSubmitCall({NoPosition})
  \/ AnalyzeBatchRequest
  \/ FetchBatchesCall
  \/ HandleAcceptAsVendorCall

SpecSheet == Init /\ [][NextSheet]_vars

\* ------------------------------------------------- TransporterDashboard
\* The transporter whose dashboard it is.
DashUser == "t1"

MaxFetches == 3

\* The condition under which BatchDetailSheet renders the transporter's
\* Accept card.
TransporterAcceptCardShown(prof, batch) ==
  prof.role = "transporter" /\ batch.status = "created"

\* fetchBatches is called: it reads the joined rows the user can select.
StartFetch(d, db) ==
  LET data == FetchBatches(db, DashUser)
  IN [d EXCEPT !.inflight = @ \cup {[seq |-> d.started + 1, data |-> data]},
               !.started = @ + 1,
               !.latest = data]

SameTables ==
  UNCHANGED <<batches, transport_logs, vendor_receipts, environmental_data,
              ai_analysis, route, user_roles, profiles, view, auth>>

\* fetchBatches called by the mount effect or by a mutation elsewhere.
DashFetchStarts ==
  /\ dash.started < MaxFetches
  /\ dash' = StartFetch(dash, Current)
  /\ resp' = Resp("fetchBatches", 0, "")
  /\ SameTables

\* A fetchBatches call reaches setBatches(enrichedBatches).
DashFetchCompletes ==
  \E f \in dash.inflight :
    /\ dash' = [dash EXCEPT !.inflight = @ \ {f}, !.batches = f.data]
    /\ resp' = Resp("setBatches", 0, "")
    /\ SameTables

\* handleViewBatch: the card's batch becomes selectedBatch.
DashViewBatch ==
  \E b \in DOMAIN dash.batches :
    /\ dash' = [dash EXCEPT !.selected = [id |-> b, batch |-> dash.batches[b]],
                            !.accepted = FALSE]
    /\ resp' = Resp("handleViewBatch", 0, "")
    /\ SameTables

\* handleAcceptAsTransporter on the sheet's batch: acceptBatchAsTransporter,
\* then onRefresh, the dashboard's fetchBatches.
DashAcceptAsTransporter ==
  /\ dash.selected # NoSelection
  /\ TransporterAcceptCardShown(profiles[DashUser], dash.selected.batch)
  /\ dash.started < MaxFetches
  /\ \E r \in {AcceptBatchAsTransporter(Current, DashUser, dash.selected.id)} :
        /\ Store(r.db)
        /\ resp' = Resp("handleAcceptAsTransporter", r.status, "")
        /\ dash' = IF r.status = 0
                   THEN [StartFetch(dash, r.db) EXCEPT !.accepted = TRUE]
                   ELSE dash
        /\ UNCHANGED <<route, user_roles, profiles, view, auth>>

NextDash ==
  \/ DirectInsertBatchRequest
  \/ TransportSubmitCall({NoPosition})
  \/ DashFetchStarts
  \/ DashFetchCompletes
  \/ DashViewBatch
  \/ DashAcceptAsTransporter

SpecDash == Init /\ [][NextDash]_vars

\* ------------------------------------------------------------ AuthContext
\* The users that sign in on the browser.
AuthUsers == {"f1", "t1"}

MaxPending == 3

\* The sessions the SDK can hold in storage when AuthProvider mounts.
StoredSessions ==
  {[uid |-> NoUser, state |-> "none"]} \cup
  {[uid |-> u, state |-> st] : u \in AuthUsers, st \in {"valid", "stale"}}

\* What is pending in the browser: the timer of the auth-state callback
\* ("timer"), a profile request in flight with the row it will return
\* ("fetch"), and the getUser request of the initial validation with
\* whether the backend accepts the token ("getUser").
Timer(u) == [kind |-> "timer", uid |-> u, result |-> NoUser]
Fetch(u, result) == [kind |-> "fetch", uid |-> u, result |-> result]
GetUser(u, ok) == [kind |-> "getUser", uid |-> u, result |-> IF ok THEN u ELSE NoUser]

\* fetchProfile(userId) at the moment the request is served: the policy
\* "Users can view own profile" shows the row to its owner only, and
\* maybeSingle gives null when no row is visible.
FetchProfile(a, userId) ==
  IF a.sdk.state = "valid" /\ a.sdk.uid = userId THEN userId ELSE NoUser

\* The auth-state callback, lines 57-74, for the session the event carries.
OnAuthStateChange(a, sess) ==
  IF sess.state # "none"
  THEN [a EXCEPT !.user = sess.uid, !.pending = @ \cup {Timer(sess.uid)}]
  ELSE [a EXCEPT !.user = NoUser, !.profile = NoUser]

\* supabase.auth.signOut({scope: 'local'}) followed by clearAuthState.
LocalSignOut(a) ==
  LET gone == [a EXCEPT !.sdk = [uid |-> NoUser, state |-> "none"]]
  IN [OnAuthStateChange(gone, gone.sdk) EXCEPT !.user = NoUser, !.profile = NoUser]

SameDb ==
  UNCHANGED <<batches, transport_logs, vendor_receipts, environmental_data,
              ai_analysis, resp, route, user_roles, profiles, view, dash>>

\* The effect of mounting: the listener gets the stored session, and the
\* initial validation calls getUser when a session is stored.
AuthMount ==
  \E stored \in StoredSessions :
    /\ ~auth.mounted
    /\ \E heard \in {OnAuthStateChange([auth EXCEPT !.mounted = TRUE, !.sdk = stored], stored)} :
          auth' = IF stored.state = "none" THEN heard
                  ELSE [heard EXCEPT !.pending =
                          @ \cup {GetUser(stored.uid, stored.state = "valid")}]
    /\ SameDb

AuthSignIn ==
  \E u \in AuthUsers :
    /\ auth.mounted /\ auth.sdk.state = "none"
    /\ Cardinality(auth.pending) < MaxPending
    /\ \E sess \in {[uid |-> u, state |-> "valid"]} :
          auth' = OnAuthStateChange([auth EXCEPT !.sdk = sess], sess)
    /\ SameDb

AuthSignOut ==
  /\ auth.mounted /\ auth.user # NoUser
  /\ auth' = LocalSignOut(auth)
  /\ SameDb

\* The timer of line 65 fires: the profile request is sent.
AuthTimerFires ==
  \E t \in auth.pending :
    /\ t.kind = "timer"
    /\ auth' = [auth EXCEPT !.pending =
                  (@ \ {t}) \cup {Fetch(t.uid, FetchProfile(auth, t.uid))}]
    /\ SameDb

\* A profile request returns: setProfile(profileData), lines 67 and 118.
AuthFetchCompletes ==
  \E t \in auth.pending :
    /\ t.kind = "fetch"
    /\ auth' = [auth EXCEPT !.pending = @ \ {t}, !.profile = t.result]
    /\ SameDb

\* getUser of the initial validation returns, lines 101-116.
AuthGetUserCompletes ==
  \E t \in auth.pending :
    /\ t.kind = "getUser"
    /\ \E rest \in {[auth EXCEPT !.pending = @ \ {t}]} :
          auth' = IF t.result = NoUser THEN LocalSignOut(rest)
                  ELSE [rest EXCEPT !.user = t.uid,
                                    !.pending = @ \cup {Fetch(t.uid, FetchProfile(rest, t.uid))}]
    /\ SameDb

NextAuth ==
  \/ AuthMount
  \/ AuthSignIn
  \/ AuthSignOut
  \/ AuthTimerFires
  \/ AuthFetchCompletes
  \/ AuthGetUserCompletes

SpecAuth == Init /\ [][NextAuth]_vars

\* One browser: sign-in, the session going stale, and the operations of
\* useBatches.
SessionSignIn ==
  \E u \in Users :
    /\ auth.sdk.state = "none"
    /\ auth' = SignedInAuth(u)
    /\ resp' = Resp("signIn", 0, "")
    /\ UNCHANGED <<batches, transport_logs, vendor_receipts, environmental_data,
                   ai_analysis, route, user_roles, profiles, view, dash>>

SessionGoesStale ==
  /\ auth.sdk.state = "valid"
  /\ auth' = [auth EXCEPT !.sdk.state = "stale"]
  /\ resp' = Resp("token-expired", 0, "")
  /\ UNCHANGED <<batches, transport_logs, vendor_receipts, environmental_data,
                 ai_analysis, route, user_roles, profiles, view, dash>>

HookRequests ==
  {<<"createBatch", 1, "created", "A">>, <<"updateTransportLog", 1, "created", "A">>} \cup
  {<<op, b, "created", "A">> :
     op \in {"acceptBatchAsTransporter", "acceptBatchAsVendor"}, b \in BatchIds} \cup
  {<<"updateBatch", b, s, "A">> :
     b \in BatchIds, s \in {"picked_up", "delivered", "received"}} \cup
  {<<"updateVendorReceipt", b, "created", g>> : b \in BatchIds, g \in Grades}

HookCallRequest ==
  \E req \in HookRequests, how \in StaleOutcomes :
    \E r \in {HookCall(req[1], auth, Current, req[2], req[3], req[4], how)} :
       /\ Store(r.db)
       /\ resp' = Resp(req[1], r.status, r.message)
       /\ auth' = IF r.signedOut THEN SignedOutAuth ELSE auth
       /\ UNCHANGED <<route, user_roles, profiles, view, dash>>

NextSession ==
  \/ SessionSignIn
  \/ SessionGoesStale
  \/ HookCallRequest

SpecSession == Init /\ [][NextSession]_vars

\* Who can select which batch: the operations that make a batch, move its
\* status and make participants, together with the insert into user_roles.
NextAccess ==
  \/ InsertUserRoleRequest({NoBearer, "t1"})
  \/ DirectInsertBatchRequest
  \/ AcceptBatchAsTransporterCall
  \/ AcceptBatchAsVendorCall
  \/ TransportSubmitCall({NoPosition})

SpecAccess == Init /\ [][NextAccess]_vars

\* ================================================================ claims
LogsOf(b) == {i \in DOMAIN transport_logs : transport_logs[i].batch_id = b}

ReceiptsOf(b) == {i \in DOMAIN vendor_receipts : vendor_receipts[i].batch_id = b}

\* C1: every change of batches.status moves a batch to a later position of
\* created < assigned_transporter < picked_up < in_transit < delivered <
\* received < analyzed; no operation moves it backward.
C1_StatusOnlyAdvances ==
  [][\A b \in DOMAIN batches :
       /\ b \in DOMAIN batches'
       /\ Rank(batches'[b].status) >= Rank(batches[b].status)]_vars

\* C2: whatever acceptBatchAsTransporter calls were made, by whichever
\* transporters, every batch has at most one transport_logs row.
C2_AtMostOneTransportLog ==
  \A b \in BatchIds : Cardinality(LogsOf(b)) <= 1

\* C3: whatever acceptBatchAsVendor calls were made, every batch has at most
\* one vendor_receipts row.
C3_AtMostOneVendorReceipt ==
  \A b \in BatchIds : Cardinality(ReceiptsOf(b)) <= 1

\* C4: an analyze-batch of a participant for a batch that already has its
\* ai_analysis row, answered by the gateway with a well-formed analysis,
\* leaves the row of the batch holding that latest analysis.
C4_LaterAnalysisOverwrites ==
  \A c \in Users, b \in DOMAIN ai_analysis, a \in {TextA, TextB} :
    is_batch_participant(Current, b, c) =>
      \A r \in {AnalyzeBatch(Current, c, b, Gw("ok", 200, a, Undefined))} :
        /\ r.status = 200
        /\ b \in DOMAIN r.db.ai_analysis
        /\ r.db.ai_analysis[b] = ParseAnalysisJSON(a).value

\* C5: a batches row is inserted only for a caller with role farmer and with
\* the caller's id as farmer_id; every other attempt, through create-batch or
\* through a direct insert, is refused and leaves batches as it was.
C5_OnlyFarmersInsertOwnBatches ==
  /\ \A b \in DOMAIN batches : has_role(batches[b].farmer_id, "farmer")
  /\ \A req \in CreateRequests :
       \A r \in {CreateBatch(Current, req[1], req[2], req[3], req[4], req[5])} :
         IF req[1] \in Users /\ has_role(req[1], "farmer")
         THEN /\ \A b \in DOMAIN batches :
                   b \in DOMAIN r.db.batches /\ r.db.batches[b] = batches[b]
              /\ \A b \in DOMAIN r.db.batches \ DOMAIN batches :
                   r.db.batches[b].farmer_id = req[1]
         ELSE r.status \in {401, 403} /\ r.db = Current
  /\ \A req \in DirectInsertRequests :
       \A r \in {DirectInsertBatch(Current, req[1], req[2])} :
         IF req[1] \in Users /\ req[1] = req[2] /\ has_role(req[1], "farmer")
         THEN /\ r.status = 0
              /\ \A b \in DOMAIN batches :
                   b \in DOMAIN r.db.batches /\ r.db.batches[b] = batches[b]
              /\ \A b \in DOMAIN r.db.batches \ DOMAIN batches :
                   r.db.batches[b].farmer_id = req[1]
         ELSE r.status = -1 /\ r.db = Current

\* A farmer's batch is in the table and the last operation is a direct insert
\* that was refused.
C5_Witness ==
  /\ DOMAIN batches # {}
  /\ resp = Resp("insert-batch", -1, "")

\* The failures of the call to the gateway: a thrown fetch or a non-OK answer.
UpstreamFailures == {gw \in GatewayFailures : gw.kind \in {"throw", "status"}}

\* An OK answer of the gateway that carries no tool-call arguments.
WithoutToolCall == {gw \in EnvGateway : gw.kind = "ok" /\ ~TruthyText(gw.args)}

LastEnvRow == environmental_data[Len(environmental_data)]

LackingStructuredFields ==
  {gw \in AnalysisGateway :
     /\ gw.kind = "ok"
     /\ \/ gw.args = TextGarbage
        \/ /\ ~TruthyText(gw.args)
           /\ gw.content \in {Undefined, TextGarbage, TextNull, TextPartial}}

IsFallbackPayload(a) ==
  /\ a.confidence_level = "Low"
  /\ a.farmer_suggestions = GenericSuggestion
  /\ a.transporter_suggestions = GenericSuggestion
  /\ a.vendor_suggestions = GenericSuggestion

\* C7: for every OK answer of the gateway that lacks the structured fields,
\* analyze-batch (asked by a participant, for a batch without an analysis)
\* answers success, never 500, and persists an ai_analysis row carrying the
\* fallback payload.
C7_FallbackPayloadPersisted ==
  \A c \in Users, b \in DOMAIN batches \ DOMAIN ai_analysis,
     gw \in LackingStructuredFields :
    is_batch_participant(Current, b, c) =>
      \A r \in {AnalyzeBatch(Current, c, b, gw)} :
        /\ r.status = 200
        /\ b \in DOMAIN r.db.ai_analysis
        /\ IsFallbackPayload(r.db.ai_analysis[b])

\* The shapes of routing answer of C8: no routes, or a route whose
\* distanceMeters is zero or omitted and whose duration is "0s" or omitted.
DegenerateRouteAnswers ==
  {api \in RouteApiAnswers :
     /\ api.kind = "ok"
     /\ \/ api.routes \in {"absent", "empty"}
        \/ api.distanceMeters \in {Missing, 0} /\ api.duration \in {Undefined, "0s"}}

\* C8: for origin = (0,0), destination = (0,0) and every such shape of
\* routing answer, calculate-route answers either 200 with zero distance and
\* duration or the structured "No route found" error, never 500.
C8_DegenerateRouteHandled ==
  ( /\ route.asked
    /\ route.origin = Point(TRUE, 0, 0)
    /\ route.destination = Point(TRUE, 0, 0)
    /\ route.api \in DegenerateRouteAnswers )
  => \/ /\ route.answer.status = 200
        /\ route.answer.distanceMeters = 0
        /\ route.answer.distanceKm = 0
        /\ route.answer.durationSeconds = 0
     \/ /\ route.answer.status = 404
        /\ route.answer.error = "No route found between the specified locations"

\* The requests of analyze-batch that reach the gateway: an authenticated
\* caller and a batch the caller can select.
ReachesAnalysisGateway(c, b) ==
  c \in Users /\ b \in DOMAIN batches /\ BatchesSelectUsing(Current, c, b)

\* C9: when the gateway answers 429, analyze-batch and
\* fetch-environmental-data answer 429, and when it answers 402 they answer
\* 402; in both cases no row is written.
C9_QuotaStatusesSurfaced ==
  \A c \in Users, b \in BatchIds, s \in {429, 402} :
    /\ ReachesAnalysisGateway(c, b) =>
         \A r \in {AnalyzeBatch(Current, c, b, Gw("status", s, Undefined, Undefined))} :
           r.status = s /\ r.db = Current
    /\ \A st \in Stages :
         \A r \in {FetchEnvironmentalData(Current, c, b, st, 12, 12,
                                          Gw("status", s, Undefined, Undefined))} :
           r.status = s /\ r.db = Current

\* analyze-batch has just answered 429 to a non-OK answer of the gateway, for
\* a batch that exists.
C9_Witness ==
  /\ resp = Resp("analyze-batch", 429, "status")
  /\ DOMAIN batches # {}

\* The external failures other than a gateway 429 or 402: a thrown fetch, an
\* unparsable body, another non-OK status.
OtherGatewayFailures ==
  {gw \in GatewayFailures :
     \/ gw.kind \in {"throw", "badbody"}
     \/ gw.kind = "status" /\ gw.status \notin {429, 402}}

RouteApiFailures == {api \in RouteApiAnswers : api.kind \in {"throw", "badbody", "status"}}

WeatherFailures == {w \in WeatherAnswers : w.kind \in {"throw", "nonok"}}

\* What the two gateway handlers do with those failures: 500, nothing written.
GatewayHandlersAnswer500 ==
  \A c \in Users, b \in BatchIds, gw \in OtherGatewayFailures :
    /\ ReachesAnalysisGateway(c, b) =>
         \A r \in {AnalyzeBatch(Current, c, b, gw)} : r.status = 500 /\ r.db = Current
    /\ \A st \in Stages :
         \A r \in {FetchEnvironmentalData(Current, c, b, st, 12, 12, gw)} :
           r.status = 500 /\ r.db = Current

Unauthenticated == {NoBearer, BadToken}

\* C11: each of the four handlers answers 401, without calling an external
\* API and without writing a row, when the request carries no Bearer
\* credential or one that resolves to no caller.
C11_UnauthenticatedGets401 ==
  /\ (route.asked /\ route.caller \in Unauthenticated) =>
       route.answer.status = 401 /\ ~route.called
  /\ \A c \in Unauthenticated :
       /\ \A w \in WeatherAnswers :
            \A r \in {CreateBatch(Current, c, TRUE, 12, 12, w)} :
              r.status = 401 /\ r.db = Current
       /\ \A b \in BatchIds, st \in Stages, gw \in EnvGateway :
            \A r \in {FetchEnvironmentalData(Current, c, b, st, 12, 12, gw)} :
              r.status = 401 /\ r.db = Current
       /\ \A b \in BatchIds, gw \in AnalysisGateway :
            \A r \in {AnalyzeBatch(Current, c, b, gw)} :
              r.status = 401 /\ r.db = Current

\* C12: an authenticated caller who is denied by role or ownership gets 403
\* from every handler: a non-farmer from create-batch, a non-participant of
\* the batch from fetch-environmental-data and from analyze-batch.
C12_DeniedCallerGets403 ==
  /\ \A c \in Users \ Farmers, w \in WeatherAnswers :
       \A r \in {CreateBatch(Current, c, TRUE, 12, 12, w)} :
         r.status = 403 /\ r.db = Current
  /\ \A c \in Users, b \in DOMAIN batches :
       ~is_batch_participant(Current, b, c) =>
         /\ \A st \in Stages, gw \in EnvGateway :
              FetchEnvironmentalData(Current, c, b, st, 12, 12, gw).status = 403
         /\ \A gw \in AnalysisGateway :
              AnalyzeBatch(Current, c, b, gw).status = 403

\* C13: once create-batch has inserted the batch, every outcome of the
\* harvest weather capture (no API key, weather API non-OK or throwing,
\* air-quality API failing, insert error) still gives a success response with
\* the created batch, and the other tables are as they were.
C13_HarvestCaptureNeverFailsCreation ==
  \A c \in Farmers, gps \in GpsInputs, w \in WeatherAnswers :
    \A r \in {CreateBatch(Current, c, TRUE, gps[1], gps[2], w)} :
      /\ r.status = 200
      /\ NextBatchId(Current) \in DOMAIN r.db.batches
      /\ r.db.batches[NextBatchId(Current)] = [farmer_id |-> c, status |-> "created"]
      /\ \A b \in DOMAIN batches : r.db.batches[b] = batches[b]
      /\ r.db.transport_logs = transport_logs
      /\ r.db.vendor_receipts = vendor_receipts
      /\ r.db.ai_analysis = ai_analysis
      /\ Len(r.db.environmental_data) \in
           {Len(environmental_data), Len(environmental_data) + 1}

\* create-batch has just answered success to a request with a position whose
\* weather capture failed, and the batch is there without a harvest row.
C13_Witness ==
  /\ resp.op = "create-batch"
  /\ resp.status = 200
  /\ resp.ext \in {"nokey", "throw", "nonok", "insert-error"}
  /\ DOMAIN batches # {}
  /\ environmental_data = << >>

EnvRowsOf(b, st) ==
  {i \in DOMAIN environmental_data :
     environmental_data[i].batch_id = b /\ environmental_data[i].stage = st}

\* C14: in every reachable state there is at most one environmental_data row
\* for each (batch_id, stage); creating a batch with coordinates through the
\* client form leaves exactly one row of stage harvest.
C14_OneRowPerBatchAndStage ==
  \A b \in BatchIds, st \in Stages : Cardinality(EnvRowsOf(b, st)) <= 1

\* C15: a user's role is fixed at signup: whatever the policies let the user
\* do, the role of the profiles row and the roles of the user in user_roles
\* stay what signup made them.
C15_RolesFixedAtSignup ==
  /\ user_roles = SignupRoles
  /\ \A u \in Users : profiles[u].role = SignupProfiles[u].role

\* C16: a transporter who is no participant of a batch can select it only
\* while its status is created, a vendor who is no participant only while it
\* is in_transit or delivered, and a user who is neither and no participant
\* cannot select it.
C16_BatchVisibility ==
  \A u \in Users, b \in DOMAIN batches :
    ~is_batch_participant(Current, b, u) =>
      /\ has_role(u, "transporter") /\ BatchesSelectUsing(Current, u, b)
           => batches[b].status = "created"
      /\ has_role(u, "vendor") /\ BatchesSelectUsing(Current, u, b)
           => batches[b].status \in {"in_transit", "delivered"}
      /\ ~has_role(u, "transporter") /\ ~has_role(u, "vendor")
           => ~BatchesSelectUsing(Current, u, b)

\* C17: when acceptBatchAsTransporter, called by a transporter on a batch in
\* status created, returns without throwing, a transport_logs row of that
\* batch and that transporter exists and the status of the batch is
\* assigned_transporter.
C17_AcceptedBatchIsAssigned ==
  \A t \in Users, b \in DOMAIN batches :
    has_role(t, "transporter") /\ batches[b].status = "created" =>
      \A r \in {AcceptBatchAsTransporter(Current, t, b)} :
        r.status = 0 =>
          /\ \E i \in DOMAIN r.db.transport_logs :
               r.db.transport_logs[i] = LogRow(b, t)
          /\ r.db.batches[b].status = "assigned_transporter"

\* C18: a vendor_receipts row is only created for a batch whose status is
\* delivered at the moment of the insert, whatever the other operations do
\* between the vendor's fetch and the vendor's Accept.
C18_ReceiptOnlyWhenDelivered ==
  [][\A i \in DOMAIN vendor_receipts' :
       i \notin DOMAIN vendor_receipts =>
         batches[vendor_receipts'[i].batch_id].status = "delivered"]_vars

\* C19: after a vendor's receipt confirmation in which the receipt update,
\* the status update to received and the analyze-batch call all report
\* success, the status of the batch is analyzed and the vendor's receipt
\* holds the submitted quality grade.
C19_ConfirmedReceiptIsAnalyzed ==
  \A v \in Users, b \in DOMAIN batches, grade \in Grades, gw \in AnalysisGatewayPaths :
    /\ has_role(v, "vendor")
    /\ batches[b].status = "delivered"
    /\ \E i \in ReceiptsOf(b) : vendor_receipts[i].vendor_id = v
    => LET noted == UpdateVendorReceipt(Current, v, b, grade)
           moved == UpdateBatchStatus(noted, v, b, "received")
       IN \A a \in {AnalyzeBatch(moved, v, b, gw)} :
            a.status = 200 =>
              /\ VendorReceiptSubmit(Current, v, b, grade, Missing, Missing,
                                     AnyGw, gw).db = a.db
              /\ a.db.batches[b].status = "analyzed"
              /\ \A i \in DOMAIN a.db.vendor_receipts :
                   LET row == a.db.vendor_receipts[i]
                   IN row.batch_id = b /\ row.vendor_id = v => row.quality_grade = grade

\* A handler that writes entered "persist", and one that entered no "persist"
\* leaves the database as it was.
StepsAgreeWithAnswers ==
  /\ \A req \in EnvRequests :
       FetchEnvironmentalData(Current, req[1], req[2], req[3], req[4], req[5], req[6]).db
         # Current
       => \E i \in DOMAIN FetchEnvironmentalDataSteps(Current, req[1], req[2], req[3],
                                                      req[4], req[5], req[6]) :
            FetchEnvironmentalDataSteps(Current, req[1], req[2], req[3],
                                        req[4], req[5], req[6])[i] = "persist"
  /\ \A req \in AnalyzeRequests :
       AnalyzeBatch(Current, req[1], req[2], req[3]).db # Current
       => \E i \in DOMAIN AnalyzeBatchSteps(Current, req[1], req[2], req[3]) :
            AnalyzeBatchSteps(Current, req[1], req[2], req[3])[i] = "persist"
  /\ \A req \in CreateRequests :
       CreateBatch(Current, req[1], req[2], req[3], req[4], req[5]).db # Current
       => \E i \in DOMAIN CreateBatchSteps(Current, req[1], req[2], req[3], req[4], req[5]) :
            CreateBatchSteps(Current, req[1], req[2], req[3], req[4], req[5])[i] = "persist"

\* The order of the handler contract: "call" comes after "authenticate",
\* "authorize" and "validate", and "persist" comes after a "call" and the
\* "map" that follows it.
ContractOrder(steps) ==
  \A i \in DOMAIN steps :
    /\ steps[i] = "call" =>
         \A s \in {"authenticate", "authorize", "validate"} :
           \E j \in 1..(i - 1) : steps[j] = s
    /\ steps[i] = "persist" =>
         \E j \in 1..(i - 1), k \in 1..(i - 1) :
           j < k /\ steps[j] = "call" /\ steps[k] = "map"

\* C20: in every handler the external API is called only after the caller is
\* authenticated and authorized and the required fields are validated, and a
\* row is persisted only after the external call has returned and its answer
\* has been mapped.
C20_StepsInContractOrder ==
  /\ \A req \in EnvRequests :
       ContractOrder(FetchEnvironmentalDataSteps(Current, req[1], req[2], req[3],
                                                 req[4], req[5], req[6]))
  /\ \A req \in AnalyzeRequests :
       ContractOrder(AnalyzeBatchSteps(Current, req[1], req[2], req[3]))
  /\ \A req \in CreateRequests :
       ContractOrder(CreateBatchSteps(Current, req[1], req[2], req[3], req[4], req[5]))

\* The same for analyze-batch alone, the handler that has every step.
AnalyzeBatchInContractOrder ==
  \A req \in AnalyzeRequests :
    ContractOrder(AnalyzeBatchSteps(Current, req[1], req[2], req[3]))

\* C21: no handler and no client flow writes the status in_transit: in every
\* state reachable through them no batch has status in_transit.
C21_NeverInTransit ==
  \A b \in DOMAIN batches : batches[b].status # "in_transit"

\* A pickup has been recorded and a delivery has just been.
C21_Witness ==
  /\ resp.op = "deliver"
  /\ \E b \in DOMAIN batches : batches[b].status = "delivered" /\ LogsOf(b) # {}

\* C22: whenever an operation of the data hook is attempted with a stale
\* session, the browser signs out locally and the operation fails with the
\* session-expired message, not with the raw error of the backend.
C22_StaleSessionSignsOut ==
  auth.sdk.state = "stale" =>
    \A req \in HookRequests, how \in StaleOutcomes :
      \A r \in {HookCall(req[1], auth, Current, req[2], req[3], req[4], how)} :
        r.status = -1 /\ r.message = SessionExpiredMessage /\ r.signedOut

\* C23: whenever analyze-batch returns its success response for a batch, an
\* ai_analysis row of that batch holding the returned analysis is stored and
\* the status of the batch is analyzed.
C23_SuccessMeansAnalyzed ==
  \A req \in AnalyzeRequests :
    \A r \in {AnalyzeBatch(Current, req[1], req[2], req[3])} :
      r.status = 200 =>
        /\ req[2] \in DOMAIN r.db.ai_analysis
        /\ r.db.ai_analysis[req[2]] = r.body
        /\ r.db.batches[req[2]].status = "analyzed"

\* C24: in every reachable state the status of a batch agrees with its linked
\* records: at or beyond assigned_transporter a transport_logs row exists,
\* at received or analyzed a vendor_receipts row exists, and at analyzed an
\* ai_analysis row exists.
C24_StatusAgreesWithRecords ==
  \A b \in DOMAIN batches :
    /\ Rank(batches[b].status) >= Rank("assigned_transporter") => LogsOf(b) # {}
    /\ batches[b].status \in {"received", "analyzed"} => ReceiptsOf(b) # {}
    /\ batches[b].status = "analyzed" => b \in DOMAIN ai_analysis

\* C25: a transport_logs row is only created for a batch whose status is
\* created and that has no transport_logs row yet.
C25_LogOnlyForUnassignedCreatedBatch ==
  [][\A i \in DOMAIN transport_logs' :
       i \notin DOMAIN transport_logs =>
         /\ batches[transport_logs'[i].batch_id].status = "created"
         /\ LogsOf(transport_logs'[i].batch_id) = {}]_vars

\* C26: whenever analyze-batch returns a non-success response (400, 401, 402,
\* 404, 429 or 500), the ai_analysis table and the status of every batch are
\* exactly as they were before the invocation.
C26_FailureWritesNothing ==
  \A req \in AnalyzeRequests :
    \A r \in {AnalyzeBatch(Current, req[1], req[2], req[3])} :
      r.status # 200 =>
        /\ r.status \in {400, 401, 402, 404, 429, 500}
        /\ r.db.ai_analysis = ai_analysis
        /\ r.db.batches = batches

\* analyze-batch has just answered 500 to the farmer of a batch that already
\* has an analysis and has not reached status analyzed.
C26_Witness ==
  /\ resp.op = "analyze-batch" /\ resp.status = 500
  /\ \E b \in DOMAIN batches : b \in DOMAIN ai_analysis /\ batches[b].status # "analyzed"

\* C27: in the auth context, once everything pending has completed, profile
\* is non-null only if user is non-null and the profile is that user's.
C27_ProfileBelongsToUser ==
  auth.pending = {} =>
    (auth.profile # NoUser => auth.user # NoUser /\ auth.profile = auth.user)

\* C28: when several fetchBatches calls overlap, after all of them have
\* completed the cached view is what the most recently started one read.
C28_LatestFetchWins ==
  dash.started > 0 /\ dash.inflight = {} => dash.batches = dash.latest

\* C29: after a transporter accepted a batch from the detail sheet and the
\* dashboard has refreshed, the batch of the still-open sheet is the
\* refreshed record and the Accept card is no longer shown.
C29_SheetShowsRefreshedBatch ==
  dash.accepted /\ dash.inflight = {} =>
    /\ dash.selected.batch = dash.batches[dash.selected.id]
    /\ dash.selected.batch.transport_log
    /\ ~TransporterAcceptCardShown(profiles[DashUser], dash.selected.batch)

\* C30: fetch-environmental-data answers 400 only when batch_id, stage,
\* latitude or longitude is missing: a request that gives all four, latitude
\* 0 or longitude 0 included, passes the validation of its input.
C30_BadRequestOnlyWhenMissing ==
  \A req \in EnvRequests :
    FetchEnvironmentalData(Current, req[1], req[2], req[3], req[4], req[5], req[6]).status = 400
    => req[2] = 0 \/ req[3] = "" \/ req[4] = Missing \/ req[5] = Missing

====
